---- MODULE Spec2Model ----
(***************************************************************************)
(* A model of scripts/rebuildBookChunked.py: the chunked opening-book      *)
(* builder.  process_single_shard aggregates the plies of one game stream  *)
(* into a sorted shard file, merge_books k-way merges the shard files      *)
(* into the output file, and main drives both and then searches the        *)
(* output file for one reference key.                                      *)
(*                                                                         *)
(* Files are sequences of 16-byte records.  A record is modelled by the    *)
(* five fields struct.pack('>QHHHh') stores, the signed scoreSum held in   *)
(* its two's complement form.                                              *)
(***************************************************************************)
EXTENDS Integers, Sequences, FiniteSets, TLC

VARIABLES
    \* ---- merge_books
    book_files,       \* the argument: the shard files, each a sequence of records
    open_files,       \* the handles: [file, pos, closed], in the order opened
    readers,          \* the heap: a set of (key, move, count, n, sum, file_idx)
    current_key, current_move, current_count, current_n, current_sum,
    entries_written,
    output_file,      \* the records of the output file
    output_exists,    \* whether the output file exists on disk
    mpc,              \* where merge_books is
    popped,           \* history: the heap items popped so far, in order
    origin,           \* history: the handle each heap item was read from
    refills,          \* history: per pop, the handle the item came from and the one read next
    \* ---- process_single_shard
    max_ply,          \* the ply limit
    position_stats,   \* the dict of dicts, in insertion order: <<key, <<move_int, cnt>>..>>
    shard_count,      \* count: the games processed
    shard_errors,     \* errors: the games skipped
    shard_file,       \* the records of output_bin
    shard_exists,     \* whether output_bin exists on disk
    spc,              \* where process_single_shard is
    prior,            \* history: the one-move games the stream began with
    plies,            \* history: the plies within the limit of the games processed
    raised_games,     \* history: the exceptions read_game and process_game raised
    torn_games,       \* history: whether process_game left a game part-way
    \* ---- main
    shards,           \* the number of *.pgn.zst files found
    shard_i,          \* the shards processed so far
    temp_books,       \* the shard files to merge
    tmpdir_exists,    \* whether the temporary directory and its files exist
    scratch,          \* the files written into the temporary directory
    total_entries,
    exit_code,        \* the exit status, None while running
    dpc,              \* where main is
    output_before,    \* history: the output file when main started
    \* ---- main, lines 224-258: the search of the output file
    output_extra,     \* the bytes of the output file after its last whole record
    target_key, num_entries, left, right, found,
    probes            \* history: the values of mid, in order

mvars == <<book_files, open_files, readers, current_key, current_move,
           current_count, current_n, current_sum, entries_written,
           output_file, output_exists, mpc, popped, origin, refills>>

svars == <<max_ply, position_stats, shard_count, shard_errors, shard_file,
           shard_exists, spc, prior, plies, raised_games, torn_games>>

dvars == <<shards, shard_i, temp_books, tmpdir_exists, scratch, total_entries,
           exit_code, dpc, output_before>>

vvars == <<output_extra, target_key, num_entries, left, right, found, probes>>

vars == <<mvars, svars, dvars, vvars>>

(***************************************************************************)
(* Bounds of the model and constants of the program.                       *)
(***************************************************************************)
MaxFiles == 2        \* shard files handed to merge_books
MaxLen == 3          \* records per shard file
MaxGames == 2        \* games read from one stream, after the prior ones
MaxGameLen == 2      \* moves of one game
MaxShards == 2       \* shard sources in the input directory

U16Max == 65535
I16Max == 32767
I16Min == -32768
None == -1           \* Python's None in current_key / current_move

Min(a, b) == IF a < b THEN a ELSE b
Max(a, b) == IF a > b THEN a ELSE b

(***************************************************************************)
(* struct.pack('>QHHHh', ...) and struct.unpack: the record layout.        *)
(* pack raises struct.error when a field does not fit its width.           *)
(* The keys of the model are far below 2^64, so only the sign of the key   *)
(* is checked.                                                             *)
(***************************************************************************)
StructError == <<"struct.error">>

Pack(key, move, count, n, sum_val) ==
    IF /\ key >= 0
       /\ move \in 0..U16Max
       /\ count \in 0..U16Max
       /\ n \in 0..U16Max
       /\ sum_val \in I16Min..I16Max
    THEN <<key, move, count, n, IF sum_val < 0 THEN sum_val + 65536 ELSE sum_val>>
    ELSE StructError

Unpack(entry) ==
    <<entry[1], entry[2], entry[3], entry[4],
      IF entry[5] > I16Max THEN entry[5] - 65536 ELSE entry[5]>>

(***************************************************************************)
(* Python's tuple order, and heapq over it: heappop returns the least      *)
(* item.  The items of the heap are pairwise different (their file_idx     *)
(* are), so the least item is unique.                                      *)
(***************************************************************************)
RECURSIVE TupleLess(_, _)
TupleLess(a, b) ==
    IF a = <<>> THEN b # <<>>
    ELSE IF b = <<>> THEN FALSE
    ELSE IF Head(a) = Head(b) THEN TupleLess(Tail(a), Tail(b))
    ELSE Head(a) < Head(b)

HeapPopByFile(rd) ==
    CHOOSE t \in rd : \A u \in rd \ {t} :
        TupleLess(<<t[1], t[2], t[6]>>, <<u[1], u[2], u[6]>>)
HeapPop(rd) == CHOOSE t \in rd : \A u \in rd \ {t} : TupleLess(t, u)

\* Line 136: heappop takes its result out of the heap.
HeapAfterPopKeeps(rd, item) == rd
HeapAfterPop(rd, item) == rd \ {item}

\* The handle (1-based, in the order opened) the records of a heap item were
\* read from.
OriginOf(org, item) == (CHOOSE p \in org : p[1] = item)[2]

\* open_files[idx] with Python's indexing: a negative idx counts from the end.
PyIndex(idx, len) == IF idx < 0 THEN idx + len + 1 ELSE idx + 1

\* f.read(16): the next record of the handle, <<>> at the end of the file.
ReadEntry(h) ==
    IF h.pos < Len(book_files[h.file]) THEN book_files[h.file][h.pos + 1] ELSE <<>>

Advance(h) ==
    IF h.pos < Len(book_files[h.file]) THEN [h EXCEPT !.pos = h.pos + 1] ELSE h

\* The file_idx pushed with a file's first record (line 124): len(readers) - 1,
\* evaluated before the push.
FirstFileIdxZero(rd) == 0
FirstFileIdx(rd) == Cardinality(rd) - 1

\* The saturating additions of lines 140-142.
AddCountWraps(a, b) == (a + b) % 65536
AddCount(a, b) == Min(a + b, 65535)
AddSum(a, b) == Min(Max(a + b, -32768), 32767)

(***************************************************************************)
(* python-chess, as far as process_game uses it.  A board is one of a few  *)
(* positions; a move leads from one position to another, so that different *)
(* move orders can reach one position; zobrist_hash gives every position   *)
(* its own key, in no particular order (NumBoards is not a multiple of 3). *)
(***************************************************************************)
KNIGHT == 2
BISHOP == 3
ROOK == 4
QUEEN == 5
NoPromotion == 0     \* move.promotion is None

Moves == {[from_square |-> 12, to_square |-> 28, promotion |-> NoPromotion],
          [from_square |-> 48, to_square |-> 56, promotion |-> QUEEN]}

StartBoard == 0
NumBoards == 4
BoardPush(board, move) ==
    (board + (IF move.promotion = NoPromotion THEN 1 ELSE 2)) % NumBoards
ZobristHash(board) == 10 * (1 + ((3 * board) % NumBoards))

Games == UNION {[1..k -> Moves] : k \in 0..MaxGameLen}

RECURSIVE BitOr(_, _)
BitOr(a, b) ==
    IF a = 0 THEN b
    ELSE IF b = 0 THEN a
    ELSE Max(a % 2, b % 2) + 2 * BitOr(a \div 2, b \div 2)

ShiftLeft(a, k) == a * (2 ^ k)

\* promotion_map.get(move.promotion, 0), lines 41-47.
PromotionCode(promotion) ==
    CASE promotion = KNIGHT -> 1
      [] promotion = BISHOP -> 2
      [] promotion = ROOK -> 3
      [] promotion = QUEEN -> 4
      [] OTHER -> 0

\* Lines 36-47.
MoveInt(move) ==
    LET a == BitOr(0, move.from_square)
        b == BitOr(a, ShiftLeft(move.to_square, 6))
    IN IF move.promotion # NoPromotion
       THEN BitOr(b, ShiftLeft(PromotionCode(move.promotion), 12))
       ELSE b

(***************************************************************************)
(* position_stats, a defaultdict of defaultdicts of int, as the sequences  *)
(* of its items in insertion order.                                        *)
(***************************************************************************)
DictFind(d, k) ==
    IF \E i \in 1..Len(d) : d[i][1] = k
    THEN CHOOSE i \in 1..Len(d) : d[i][1] = k
    ELSE 0

\* d[k] += 1 on a defaultdict(int).
DictIncrement(d, k) ==
    LET i == DictFind(d, k)
    IN IF i = 0 THEN Append(d, <<k, 1>>) ELSE [d EXCEPT ![i] = <<k, @[2] + 1>>]

\* position_stats[key][move_int] += 1, line 49.
StatsIncrement(stats, key, move_int) ==
    LET i == DictFind(stats, key)
    IN IF i = 0
       THEN Append(stats, <<key, DictIncrement(<<>>, move_int)>>)
       ELSE [stats EXCEPT ![i] = <<key, DictIncrement(@[2], move_int)>>]

\* moves[:max_ply], line 33 (max_ply >= 0).
PlySliceWhole(moves, limit) == moves
PlySlice(moves, limit) == SubSeq(moves, 1, Min(Len(moves), limit))

\* The loop of lines 33-50 over the first `todo` moves of ms, from `board`.
RECURSIVE ProcessPlies(_, _, _, _)
ProcessPlies(stats, board, ms, todo) ==
    IF todo = 0 \/ ms = <<>> THEN stats
    ELSE LET move == Head(ms)
             key == ZobristHash(board)
         IN ProcessPlies(StatsIncrement(stats, key, MoveInt(move)),
                         BoardPush(board, move), Tail(ms), todo - 1)

\* process_game, lines 25-50, stopped by an exception after `done` plies
\* (done = Len(moves): none is raised).
ProcessGame(stats, moves, limit, done) ==
    IF Len(moves) = 0 THEN stats
    ELSE ProcessPlies(stats, StartBoard, PlySlice(moves, limit), done)

\* entries.sort(), line 96: ascending in Python's tuple order.
RECURSIVE SortEntries(_)
SortEntriesNot(entries) == entries
SortEntries(entries) ==
    IF entries = <<>> THEN <<>>
    ELSE LET i == CHOOSE x \in 1..Len(entries) :
                      \A y \in 1..Len(entries) : ~TupleLess(entries[y], entries[x])
         IN <<entries[i]>> \o
                SortEntries(SubSeq(entries, 1, i - 1) \o
                            SubSeq(entries, i + 1, Len(entries)))

\* Lines 91-94: the (key, move_int, cnt) of the table, in iteration order.
RECURSIVE FlattenStats(_)
FlattenStats(stats) ==
    IF stats = <<>> THEN <<>>
    ELSE LET key == Head(stats)[1]
             moves == Head(stats)[2]
         IN [j \in 1..Len(moves) |-> <<key, moves[j][1], moves[j][2]>>]
                \o FlattenStats(Tail(stats))

\* The three counters of the record written at lines 100-101.
WrittenCount(cnt) == Min(cnt, 65535)
WrittenSumZero(cnt) == 0
WrittenSum(cnt) == Min(cnt, 32767)

WriteEntries(entries) ==
    [i \in 1..Len(entries) |->
        Pack(entries[i][1], entries[i][2], WrittenCount(entries[i][3]),
             WrittenCount(entries[i][3]), WrittenSum(entries[i][3]))]

(***************************************************************************)
(* process_single_shard                                                    *)
(***************************************************************************)
FirstMove == [from_square |-> 12, to_square |-> 28, promotion |-> NoPromotion]

\* The stream's games that played nothing but FirstMove, `many` of them.
PriorStats(many) ==
    IF many = 0 THEN <<>>
    ELSE <<<<ZobristHash(StartBoard), <<<<MoveInt(FirstMove), many>>>>>>>>

\* The plies the table is to count: ply i (from 0) of a processed game, below
\* the limit, is <<key of the position before the move, code of the move>>.
PlyPairs == {<<ZobristHash(b), MoveInt(m)>> : b \in 0..(NumBoards - 1), m \in Moves}

RECURSIVE BoardAfter(_)
BoardAfter(ms) ==
    IF ms = <<>> THEN StartBoard
    ELSE BoardPush(BoardAfter(SubSeq(ms, 1, Len(ms) - 1)), ms[Len(ms)])

PlyAt(moves, i) ==
    <<ZobristHash(BoardAfter(SubSeq(moves, 1, i))), MoveInt(moves[i + 1])>>

PliesOf(moves, limit) ==
    [p \in PlyPairs |->
        Cardinality({i \in 0..(Len(moves) - 1) : i < limit /\ PlyAt(moves, i) = p})]

PriorPlies(many) ==
    [p \in PlyPairs |->
        IF p = <<ZobristHash(StartBoard), MoveInt(FirstMove)>> THEN many ELSE 0]

ShardIdle ==
    /\ max_ply = 60
    /\ position_stats = <<>>
    /\ shard_count = 0
    /\ shard_errors = 0
    /\ shard_file = <<>>
    /\ shard_exists = FALSE
    /\ spc = "idle"
    /\ prior = 0
    /\ plies = <<>>
    /\ raised_games = 0
    /\ torn_games = FALSE

\* Lines 52-66, and the stream already read up to its first `many` games.
ShardEntry(limit, many) ==
    /\ max_ply = limit
    /\ position_stats = PriorStats(many)
    /\ shard_count = many
    /\ shard_errors = 0
    /\ shard_file = <<>>
    /\ shard_exists = FALSE
    /\ spc = "read"
    /\ prior = many
    /\ plies = PriorPlies(many)
    /\ raised_games = 0
    /\ torn_games = FALSE

GamesRead == (shard_count - prior) + shard_errors

\* What the handler of lines 81-83 does with the counters and the loop.
ErrorsAfterException(errors) == errors + 1
CountAfterException(count) == count
PcAfterExceptionAborts == "raised"
PcAfterException == "read"

\* Lines 70-79: read_game returns a game and process_game returns.
ShardGame ==
    /\ spc = "read"
    /\ GamesRead < MaxGames
    /\ \E moves \in Games :
          /\ position_stats' = ProcessGame(position_stats, moves, max_ply, Len(moves))
          /\ plies' = [p \in PlyPairs |-> plies[p] + PliesOf(moves, max_ply)[p]]
    /\ shard_count' = shard_count + 1
    /\ UNCHANGED <<max_ply, shard_errors, shard_file, shard_exists, spc, prior,
                   raised_games, torn_games>>
    /\ UNCHANGED <<mvars, dvars, vvars>>

\* Lines 71, 81-83: read_game raises.
ShardReadError ==
    /\ spc = "read"
    /\ GamesRead < MaxGames
    /\ shard_errors' = ErrorsAfterException(shard_errors)
    /\ shard_count' = CountAfterException(shard_count)
    /\ spc' = PcAfterException
    /\ raised_games' = raised_games + 1
    /\ UNCHANGED <<max_ply, position_stats, shard_file, shard_exists, prior, plies,
                   torn_games>>
    /\ UNCHANGED <<mvars, dvars, vvars>>

\* Lines 75, 81-83: process_game raises after `done` of its plies were counted.
ShardProcessError ==
    /\ spc = "read"
    /\ GamesRead < MaxGames
    /\ \E moves \in Games :
          \E done \in 0..Len(PlySlice(moves, max_ply)) :
              /\ position_stats' = ProcessGame(position_stats, moves, max_ply, done)
              /\ torn_games' = (torn_games \/ done > 0)
    /\ shard_errors' = ErrorsAfterException(shard_errors)
    /\ shard_count' = CountAfterException(shard_count)
    /\ spc' = PcAfterException
    /\ raised_games' = raised_games + 1
    /\ UNCHANGED <<max_ply, shard_file, shard_exists, prior, plies>>
    /\ UNCHANGED <<mvars, dvars, vvars>>

\* Lines 72-73, 84-88: read_game returns None.
ShardEndOfStream ==
    /\ spc = "read"
    /\ spc' = "write"
    /\ UNCHANGED <<max_ply, position_stats, shard_count, shard_errors, shard_file,
                   shard_exists, prior, plies, raised_games, torn_games>>
    /\ UNCHANGED <<mvars, dvars, vvars>>

\* Lines 90-105: flatten, sort, write output_bin and return len(entries).
ShardWrite ==
    /\ spc = "write"
    /\ shard_file' = WriteEntries(SortEntries(FlattenStats(position_stats)))
    /\ shard_exists' = TRUE
    /\ spc' = "done"
    /\ UNCHANGED <<max_ply, position_stats, shard_count, shard_errors, prior, plies,
                   raised_games, torn_games>>
    /\ UNCHANGED <<mvars, dvars, vvars>>

\* Line 98: open(output_bin, 'wb') fails with an OSError.
ShardIOError ==
    /\ spc = "write"
    /\ spc' = "raised"
    /\ UNCHANGED <<max_ply, position_stats, shard_count, shard_errors, shard_file,
                   shard_exists, prior, plies, raised_games, torn_games>>
    /\ UNCHANGED <<mvars, dvars, vvars>>

ShardNext ==
    ShardGame \/ ShardReadError \/ ShardProcessError \/ ShardEndOfStream
        \/ ShardWrite \/ ShardIOError

PlyLimits == {1, 60}
PriorGames == {0, 65534}

(***************************************************************************)
(* The shard files merge_books is called with: every list of at most       *)
(* MaxFiles files, each a strictly ascending run of at most MaxLen         *)
(* (key, move) pairs, all records of one file carrying the same counters.  *)
(***************************************************************************)
Keys == {1, 2}
MoveCodes == {1, 2}
Pairs == Keys \X MoveCodes
Stats == {<<3, 3, 0>>, <<60000, 10000, 30000>>, <<10000, 60000, -30000>>}

PairLess(p, q) == p[1] < q[1] \/ (p[1] = q[1] /\ p[2] < q[2])

RECURSIVE AscendingSeq(_)
AscendingSeq(S) ==
    IF S = {} THEN <<>>
    ELSE LET p == CHOOSE x \in S : \A y \in S \ {x} : PairLess(x, y)
         IN <<p>> \o AscendingSeq(S \ {p})

ShardFileOf(S, st) ==
    LET ps == AscendingSeq(S)
    IN [i \in 1..Len(ps) |-> Pack(ps[i][1], ps[i][2], st[1], st[2], st[3])]

ShardFiles ==
    {ShardFileOf(S, st) : S \in {T \in SUBSET Pairs : Cardinality(T) \in 1..MaxLen},
                          st \in Stats}

BookFileLists == UNION {[1..k -> ShardFiles] : k \in 0..MaxFiles}

(***************************************************************************)
(* merge_books                                                             *)
(***************************************************************************)
MergeEntry(files) ==
    /\ book_files = files
    /\ open_files = <<>>
    /\ readers = {}
    /\ current_key = None
    /\ current_move = None
    /\ current_count = 0
    /\ current_n = 0
    /\ current_sum = 0
    /\ entries_written = 0
    /\ mpc = "open"
    /\ popped = <<>>
    /\ origin = {}
    /\ refills = <<>>

\* One turn of the loop of lines 115-124: open the next file and push its first
\* record.  After the last file, lines 127-134 open the output file for writing.
MergeOpen ==
    /\ mpc = "open"
    /\ Len(open_files) < Len(book_files)
    /\ LET f == [file |-> Len(open_files) + 1, pos |-> 0, closed |-> FALSE]
           entry == ReadEntry(f)
       IN /\ open_files' = Append(open_files, Advance(f))
          /\ readers' = IF entry # <<>>
                        THEN readers \cup {Unpack(entry) \o <<FirstFileIdx(readers)>>}
                        ELSE readers
          /\ origin' = IF entry # <<>>
                       THEN origin \cup {<<Unpack(entry) \o <<FirstFileIdx(readers)>>,
                                           f.file>>}
                       ELSE origin
    /\ UNCHANGED <<book_files, current_key, current_move, current_count, current_n,
                   current_sum, entries_written, output_file, output_exists, mpc,
                   popped, refills>>
    /\ UNCHANGED <<svars, dvars, vvars>>

MergeOpenOutput ==
    /\ mpc = "open"
    /\ Len(open_files) = Len(book_files)
    /\ output_file' = <<>>
    /\ output_exists' = TRUE
    /\ mpc' = "merge"
    /\ UNCHANGED <<book_files, open_files, readers, current_key, current_move,
                   current_count, current_n, current_sum, entries_written, popped,
                   origin, refills>>
    /\ UNCHANGED <<svars, dvars, vvars>>

\* One turn of the while loop of lines 135-165.  struct.pack raising leaves the
\* with block of line 134: the function ends there, its handles still open.
MergeStep ==
    /\ mpc = "merge"
    /\ readers # {}
    /\ LET item == HeapPop(readers)
           key == item[1]
           move == item[2]
           count == item[3]
           n == item[4]
           sum_val == item[5]
           file_idx == item[6]
           fi == PyIndex(file_idx, Len(open_files))
           combine == current_key = key /\ current_move = move
           packed == Pack(current_key, current_move, current_count, current_n,
                          current_sum)
           entry == ReadEntry(open_files[fi])
           from == OriginOf(origin, item)
       IN /\ popped' = Append(popped, item)
          /\ IF ~combine /\ current_key # None /\ packed = StructError
             THEN /\ mpc' = "raised"
                  /\ readers' = HeapAfterPop(readers, item)
                  /\ origin' = origin \ {<<item, from>>}
                  /\ UNCHANGED <<open_files, current_key, current_move,
                                 current_count, current_n, current_sum,
                                 output_file, entries_written, refills>>
             ELSE /\ IF combine
                     THEN /\ current_count' = AddCount(current_count, count)
                          /\ current_n' = AddCount(current_n, n)
                          /\ current_sum' = AddSum(current_sum, sum_val)
                          /\ UNCHANGED <<current_key, current_move, output_file,
                                         entries_written>>
                     ELSE /\ IF current_key # None
                             THEN /\ output_file' = Append(output_file, packed)
                                  /\ entries_written' = entries_written + 1
                             ELSE UNCHANGED <<output_file, entries_written>>
                          /\ current_key' = key
                          /\ current_move' = move
                          /\ current_count' = count
                          /\ current_n' = n
                          /\ current_sum' = sum_val
                  /\ open_files' = [open_files EXCEPT ![fi] = Advance(@)]
                  /\ readers' = HeapAfterPop(readers, item) \cup
                                    (IF entry # <<>>
                                     THEN {Unpack(entry) \o <<file_idx>>}
                                     ELSE {})
                  /\ origin' = (origin \ {<<item, from>>}) \cup
                                    (IF entry # <<>>
                                     THEN {<<Unpack(entry) \o <<file_idx>>, fi>>}
                                     ELSE {})
                  /\ refills' = Append(refills, <<from, fi>>)
                  /\ UNCHANGED mpc
    /\ UNCHANGED <<book_files, output_exists>>
    /\ UNCHANGED <<svars, dvars, vvars>>

\* Lines 167-172: the heap is empty; write the last accumulated entry.
MergeFinal ==
    /\ mpc = "merge"
    /\ readers = {}
    /\ LET packed == Pack(current_key, current_move, current_count, current_n,
                          current_sum)
       IN IF current_key = None
          THEN /\ mpc' = "close"
               /\ UNCHANGED <<output_file, entries_written>>
          ELSE IF packed = StructError
          THEN /\ mpc' = "raised"
               /\ UNCHANGED <<output_file, entries_written>>
          ELSE /\ output_file' = Append(output_file, packed)
               /\ entries_written' = entries_written + 1
               /\ mpc' = "close"
    /\ UNCHANGED <<book_files, open_files, readers, current_key, current_move,
                   current_count, current_n, current_sum, output_exists, popped,
                   origin, refills>>
    /\ UNCHANGED <<svars, dvars, vvars>>

\* Lines 174-179: close every handle and return entries_written.
MergeClose ==
    /\ mpc = "close"
    /\ open_files' = [i \in 1..Len(open_files) |-> [open_files[i] EXCEPT !.closed = TRUE]]
    /\ mpc' = "done"
    /\ UNCHANGED <<book_files, readers, current_key, current_move, current_count,
                   current_n, current_sum, entries_written, output_file,
                   output_exists, popped, origin, refills>>
    /\ UNCHANGED <<svars, dvars, vvars>>

\* open(), read() or write() failing with an OSError (lines 116, 120, 134, 148,
\* 162, 171): the exception leaves merge_books at once.
MergeIOError ==
    /\ mpc \in {"open", "merge"}
    /\ mpc' = "raised"
    /\ UNCHANGED <<book_files, open_files, readers, current_key, current_move,
                   current_count, current_n, current_sum, entries_written,
                   output_file, output_exists, popped, origin, refills>>
    /\ UNCHANGED <<svars, dvars, vvars>>

MergeNext ==
    MergeOpen \/ MergeOpenOutput \/ MergeStep \/ MergeFinal \/ MergeClose
        \/ MergeIOError

(***************************************************************************)
(* merge_books as a function: the records it writes when called with       *)
(* `files` and no call of the operating system fails.                      *)
(***************************************************************************)
\* Lines 115-124: the heap once files 1..i are open.
RECURSIVE OpenedHeap(_, _)
OpenedHeap(files, i) ==
    IF i = 0 THEN {}
    ELSE LET rd == OpenedHeap(files, i - 1)
         IN IF files[i] # <<>>
            THEN rd \cup {Unpack(files[i][1]) \o <<FirstFileIdx(rd)>>}
            ELSE rd

\* Lines 135-172, from the heap rd, the read positions pos of the handles, the
\* accumulator cur (<<>> while current_key is None) and the records out
\* written so far.
RECURSIVE MergeLoop(_, _, _, _, _)
MergeLoop(files, pos, rd, cur, out) ==
    IF rd = {}
    THEN IF cur = <<>> THEN out
         ELSE Append(out, Pack(cur[1], cur[2], cur[3], cur[4], cur[5]))
    ELSE LET item == HeapPop(rd)
             fi == PyIndex(item[6], Len(files))
             entry == IF pos[fi] < Len(files[fi]) THEN files[fi][pos[fi] + 1]
                      ELSE <<>>
             combine == cur # <<>> /\ cur[1] = item[1] /\ cur[2] = item[2]
         IN MergeLoop(files,
                      IF entry # <<>> THEN [pos EXCEPT ![fi] = @ + 1] ELSE pos,
                      HeapAfterPop(rd, item) \cup
                          (IF entry # <<>> THEN {Unpack(entry) \o <<item[6]>>}
                           ELSE {}),
                      IF combine
                      THEN <<cur[1], cur[2], AddCount(cur[3], item[3]),
                             AddCount(cur[4], item[4]), AddSum(cur[5], item[5])>>
                      ELSE SubSeq(item, 1, 5),
                      IF ~combine /\ cur # <<>>
                      THEN Append(out, Pack(cur[1], cur[2], cur[3], cur[4], cur[5]))
                      ELSE out)

MergeAll(files) ==
    MergeLoop(files,
              [i \in 1..Len(files) |-> IF files[i] # <<>> THEN 1 ELSE 0],
              OpenedHeap(files, Len(files)), <<>>, <<>>)


(***************************************************************************)
(* main.  The call of process_single_shard is one step, over a game stream *)
(* drawn from MainStreams; the call of merge_books runs the steps of       *)
(* merge_books above.                                                      *)
(***************************************************************************)
DefaultMaxPly == 60

RecordSize == 16

\* Lines 226-230: the key of the position after 1. e4 e5 2. Nf3, three moves
\* without promotion from the starting position.
TargetKey ==
    ZobristHash(BoardPush(BoardPush(BoardPush(StartBoard, FirstMove), FirstMove),
                          FirstMove))

\* The names of lines 236-239 before they are bound.
VerifyIdle ==
    /\ output_extra = 0
    /\ target_key = TargetKey
    /\ num_entries = 0
    /\ left = 0
    /\ right = 0
    /\ found = FALSE
    /\ probes = <<>>

MainIdle ==
    /\ VerifyIdle
    /\ shards = 0
    /\ shard_i = 0
    /\ temp_books = <<>>
    /\ tmpdir_exists = FALSE
    /\ scratch = <<>>
    /\ total_entries = 0
    /\ exit_code = None
    /\ dpc = "idle"
    /\ output_before = <<FALSE, <<>>>>

MergeIdle ==
    /\ book_files = <<>>
    /\ open_files = <<>>
    /\ readers = {}
    /\ current_key = None
    /\ current_move = None
    /\ current_count = 0
    /\ current_n = 0
    /\ current_sum = 0
    /\ entries_written = 0
    /\ mpc = "idle"
    /\ popped = <<>>
    /\ origin = {}
    /\ refills = <<>>

GameItem(moves) == [bad |-> FALSE, moves |-> moves]
BadItem == [bad |-> TRUE, moves |-> <<>>]
PromotionMove == [from_square |-> 48, to_square |-> 56, promotion |-> QUEEN]

\* The game streams of the shards: an empty one, one of a game without moves,
\* and three that yield entries, one of them past an unreadable game.
MainStreams ==
    {<<>>,
     <<GameItem(<<>>)>>,
     <<GameItem(<<FirstMove>>)>>,
     <<BadItem, GameItem(<<FirstMove, PromotionMove>>)>>,
     <<GameItem(<<PromotionMove>>), GameItem(<<FirstMove>>)>>}

\* The loop of lines 69-83 over a whole stream.
RECURSIVE ProcessStream(_, _, _)
ProcessStream(stats, stream, limit) ==
    IF stream = <<>> THEN stats
    ELSE LET item == Head(stream)
         IN ProcessStream(IF item.bad THEN stats
                          ELSE ProcessGame(stats, item.moves, limit, Len(item.moves)),
                          Tail(stream), limit)

\* process_single_shard(shard, temp_book): the file it writes.
RunShard(stream) ==
    WriteEntries(SortEntries(FlattenStats(ProcessStream(<<>>, stream, DefaultMaxPly))))

\* Line 191: `if not shards`.
NoShardsNever(n) == FALSE
NoShards(n) == n = 0

\* Leaving the block of line 199, normally or by an exception, removes the
\* temporary directory: whether it exists afterwards.
TmpdirKeptOnError == TRUE
TmpdirAfterError == FALSE

\* Lines 190-193: no shard found.
MainNoShards ==
    /\ dpc = "start"
    /\ NoShards(shards)
    /\ exit_code' = 1
    /\ dpc' = "exited"
    /\ UNCHANGED <<shards, shard_i, temp_books, tmpdir_exists, scratch,
                   total_entries, output_before>>
    /\ UNCHANGED <<mvars, svars, vvars>>

\* Lines 195-204: shards found; the temporary directory is created.
MainFoundShards ==
    /\ dpc = "start"
    /\ ~NoShards(shards)
    /\ tmpdir_exists' = TRUE
    /\ temp_books' = <<>>
    /\ dpc' = "shards"
    /\ UNCHANGED <<shards, shard_i, scratch, total_entries, exit_code, output_before>>
    /\ UNCHANGED <<mvars, svars, vvars>>

\* Line 209: `if entries > 0`.
KeepShardAlways(entries) == TRUE
KeepShard(entries) == entries > 0

\* Lines 205-210: one shard is aggregated into its own file.
MainProcessShard ==
    /\ dpc = "shards"
    /\ shard_i < shards
    /\ \E stream \in MainStreams :
          LET temp_book == RunShard(stream)
              entries == Len(temp_book)
          IN /\ scratch' = Append(scratch, temp_book)
             /\ temp_books' = IF KeepShard(entries)
                              THEN Append(temp_books, temp_book)
                              ELSE temp_books
    /\ shard_i' = shard_i + 1
    /\ UNCHANGED <<shards, tmpdir_exists, total_entries, exit_code, dpc,
                   output_before>>
    /\ UNCHANGED <<mvars, svars, vvars>>

\* Line 208: process_single_shard raises (Popen or open fails); the exception
\* leaves the block of line 199 and ends the process.
MainShardRaises ==
    /\ dpc = "shards"
    /\ shard_i < shards
    /\ tmpdir_exists' = TmpdirAfterError
    /\ exit_code' = 1
    /\ dpc' = "crashed"
    /\ UNCHANGED <<shards, shard_i, temp_books, scratch, total_entries,
                   output_before>>
    /\ UNCHANGED <<mvars, svars, vvars>>

\* Line 215: merge_books is called.
MainCallMerge ==
    /\ dpc = "shards"
    /\ shard_i = shards
    /\ book_files' = temp_books
    /\ open_files' = <<>>
    /\ readers' = {}
    /\ current_key' = None
    /\ current_move' = None
    /\ current_count' = 0
    /\ current_n' = 0
    /\ current_sum' = 0
    /\ entries_written' = 0
    /\ mpc' = "open"
    /\ popped' = <<>>
    /\ origin' = {}
    /\ refills' = <<>>
    /\ dpc' = "merging"
    /\ UNCHANGED <<output_file, output_exists>>
    /\ UNCHANGED <<shards, shard_i, temp_books, tmpdir_exists, scratch,
                   total_entries, exit_code, output_before>>
    /\ UNCHANGED <<svars, vvars>>

\* Lines 215-222: merge_books returns; the block of line 199 is left and the
\* temporary directory removed.
MainMergeReturns ==
    /\ dpc = "merging"
    /\ mpc = "done"
    /\ total_entries' = entries_written
    /\ tmpdir_exists' = FALSE
    /\ dpc' = "report"
    /\ UNCHANGED <<shards, shard_i, temp_books, scratch, exit_code, output_before>>
    /\ UNCHANGED <<mvars, svars, vvars>>

\* Line 215: merge_books raises; the exception leaves the block of line 199 and
\* ends the process.
MainMergeRaises ==
    /\ dpc = "merging"
    /\ mpc = "raised"
    /\ tmpdir_exists' = TmpdirAfterError
    /\ exit_code' = 1
    /\ dpc' = "crashed"
    /\ UNCHANGED <<shards, shard_i, temp_books, scratch, total_entries,
                   output_before>>
    /\ UNCHANGED <<mvars, svars, vvars>>

\* f.seek(0, 2); f.tell(), lines 234-235: the size of the output file in bytes.
FileSize == RecordSize * Len(output_file) + output_extra

\* f.seek(mid * 16); f.read(16); struct.unpack('>Q', entry[:8])[0], lines 243-245.
KeyAt(mid) == output_file[mid + 1][1]

\* Lines 251 and 253.
NextLeftStays(mid) == mid
NextLeft(mid) == mid + 1
NextRight(mid) == mid - 1

\* Lines 217-239: the report, then the output file is opened and measured.
VerifyOpen ==
    /\ dpc = "report"
    /\ output_exists
    /\ num_entries' = FileSize \div RecordSize
    /\ left' = 0
    /\ right' = (FileSize \div RecordSize) - 1
    /\ found' = FALSE
    /\ dpc' = "search"
    /\ UNCHANGED <<shards, shard_i, temp_books, tmpdir_exists, scratch,
                   total_entries, exit_code, output_before>>
    /\ UNCHANGED <<output_extra, target_key, probes>>
    /\ UNCHANGED <<mvars, svars>>

\* One turn of the while loop of lines 241-253.
VerifyStep ==
    /\ dpc = "search"
    /\ ~found
    /\ left <= right
    /\ LET mid == (left + right) \div 2
           key == KeyAt(mid)
       IN /\ probes' = Append(probes, mid)
          /\ IF key = target_key
             THEN /\ found' = TRUE
                  /\ UNCHANGED <<left, right>>
             ELSE IF key < target_key
             THEN /\ left' = NextLeft(mid)
                  /\ UNCHANGED <<right, found>>
             ELSE /\ right' = NextRight(mid)
                  /\ UNCHANGED <<left, found>>
    /\ UNCHANGED <<output_extra, target_key, num_entries>>
    /\ UNCHANGED dvars
    /\ UNCHANGED <<mvars, svars>>

\* Lines 255-258: the loop is over; the outcome is printed and main returns.
VerifyReport ==
    /\ dpc = "search"
    /\ found \/ left > right
    /\ exit_code' = 0
    /\ dpc' = "done"
    /\ UNCHANGED <<shards, shard_i, temp_books, tmpdir_exists, scratch,
                   total_entries, output_before>>
    /\ UNCHANGED vvars
    /\ UNCHANGED <<mvars, svars>>

VerifyNext == VerifyOpen \/ VerifyStep \/ VerifyReport

MainNext ==
    MainNoShards \/ MainFoundShards \/ MainProcessShard \/ MainShardRaises
        \/ MainCallMerge \/ MainMergeReturns \/ MainMergeRaises
        \/ VerifyOpen \/ VerifyStep \/ VerifyReport

\* An output file left by an earlier run.
OldBook == <<Pack(1, 1, 3, 3, 0)>>

Init ==
    /\ shards \in 0..MaxShards
    /\ shard_i = 0
    /\ temp_books = <<>>
    /\ tmpdir_exists = FALSE
    /\ scratch = <<>>
    /\ total_entries = 0
    /\ exit_code = None
    /\ dpc = "start"
    /\ \E before \in {<<FALSE, <<>>>>, <<TRUE, OldBook>>} :
          /\ output_before = before
          /\ output_exists = before[1]
          /\ output_file = before[2]
    /\ MergeIdle
    /\ ShardIdle
    /\ VerifyIdle

Next == MainNext \/ MergeNext

Spec == Init /\ [][Next]_vars

(***************************************************************************)
(* merge_books and process_single_shard on their own: called with any      *)
(* list of shard files, with any game stream.                              *)
(***************************************************************************)
MergeInit ==
    /\ \E files \in BookFileLists : MergeEntry(files)
    /\ output_file = <<>>
    /\ output_exists = FALSE
    /\ ShardIdle
    /\ MainIdle

SpecMerge == MergeInit /\ [][MergeNext]_vars

ShardInit ==
    /\ \E limit \in PlyLimits, many \in PriorGames : ShardEntry(limit, many)
    /\ MergeIdle
    /\ output_file = <<>>
    /\ output_exists = FALSE
    /\ MainIdle

SpecShard == ShardInit /\ [][ShardNext]_vars

(***************************************************************************)
(* merge_books called with one file more than MaxFiles, all files with the *)
(* same small counters, far below the widths of the record.                *)
(***************************************************************************)
PlainShardFiles ==
    {ShardFileOf(S, <<3, 3, 0>>) :
        S \in {T \in SUBSET Pairs : Cardinality(T) \in 1..MaxLen}}

MergeOrderInit ==
    /\ \E files \in [1..(MaxFiles + 1) -> PlainShardFiles] : MergeEntry(files)
    /\ output_file = <<>>
    /\ output_exists = FALSE
    /\ ShardIdle
    /\ MainIdle

SpecMergeOrder == MergeOrderInit /\ [][MergeNext]_vars

(***************************************************************************)
(* The search of lines 224-258 on its own: it opens whatever file lies at  *)
(* the output path, so any sequence of records, followed by any number of  *)
(* bytes short of a record, and it looks for any reference key.            *)
(***************************************************************************)
MaxEntries == 4
StoreKeys == {10, 20, 30}
ReferenceKeys == {5, 10, 20, 30, 35}
TrailingBytes == {0, 8}

Stores ==
    {[i \in 1..Len(ks) |-> Pack(ks[i], i, 1, 1, 1)] :
        ks \in UNION {[1..n -> StoreKeys] : n \in 0..MaxEntries}}

VerifyInit ==
    /\ output_file \in Stores
    /\ output_exists = TRUE
    /\ output_extra \in TrailingBytes
    /\ target_key \in ReferenceKeys
    /\ num_entries = 0
    /\ left = 0
    /\ right = 0
    /\ found = FALSE
    /\ probes = <<>>
    /\ shards = 1
    /\ shard_i = 1
    /\ temp_books = <<>>
    /\ tmpdir_exists = FALSE
    /\ scratch = <<>>
    /\ total_entries = Len(output_file)
    /\ exit_code = None
    /\ dpc = "report"
    /\ output_before = <<FALSE, <<>>>>
    /\ MergeIdle
    /\ ShardIdle

SpecVerify == VerifyInit /\ [][VerifyNext]_vars

(***************************************************************************)
(* Properties of merge_books.                                              *)
(***************************************************************************)
PairOf(e) == <<e[1], e[2]>>
PairLE(p, q) == p = q \/ PairLess(p, q)

RECURSIVE SumSeq(_)
SumSeq(s) == IF s = <<>> THEN 0 ELSE Head(s) + SumSeq(Tail(s))

RECURSIVE Concat(_)
Concat(ss) == IF ss = <<>> THEN <<>> ELSE Head(ss) \o Concat(Tail(ss))

\* The sum of field fld of the records for pair p, over all shard files.
InputSum(p, fld) ==
    LET recs == Concat(book_files)
    IN SumSeq([i \in 1..Len(recs) |->
                  IF PairOf(Unpack(recs[i])) = p THEN Unpack(recs[i])[fld] ELSE 0])

InputPairs ==
    {PairOf(Unpack(book_files[i][j])) : <<i, j>> \in
        {x \in (1..Len(book_files)) \X (1..MaxLen) : x[2] <= Len(book_files[x[1]])}}

OutputEntries == [j \in 1..Len(output_file) |-> Unpack(output_file[j])]

\* C1: with two or more shard files, the file merge_books has written is sorted
\* by (key, move): adjacent entries are in non-decreasing order.
MergeOutputSorted ==
    (mpc = "done" /\ Len(book_files) >= 2) =>
        \A j \in 1..(Len(output_file) - 1) :
            PairLE(PairOf(OutputEntries[j]), PairOf(OutputEntries[j + 1]))

\* C2: no (key, move) pair appears in more than one entry of the file merge_books
\* has written.
MergeOutputUnique ==
    mpc = "done" =>
        \A i, j \in 1..Len(output_file) :
            PairOf(OutputEntries[i]) = PairOf(OutputEntries[j]) => i = j

\* C3: for every pair of the input, the file merge_books has written holds an
\* entry for it whose count and n are the sums over all shard files, clamped
\* to 65535.
MergeOutputAggregates ==
    mpc = "done" =>
        \A p \in InputPairs :
            \E j \in 1..Len(output_file) :
                /\ PairOf(OutputEntries[j]) = p
                /\ OutputEntries[j][3] = Min(InputSum(p, 3), 65535)
                /\ OutputEntries[j][4] = Min(InputSum(p, 4), 65535)

\* The runs of the pop history: each maximal group of consecutive popped items
\* with one (key, move), as <<key, move, sum of count, sum of n>> (unclamped).
RECURSIVE Runs(_)
Runs(h) ==
    IF h = <<>> THEN <<>>
    ELSE LET rest == Runs(SubSeq(h, 1, Len(h) - 1))
             it == h[Len(h)]
         IN IF rest # <<>> /\ PairOf(rest[Len(rest)]) = PairOf(it)
            THEN [rest EXCEPT ![Len(rest)] =
                     <<@[1], @[2], @[3] + it[3], @[4] + it[4]>>]
            ELSE Append(rest, <<it[1], it[2], it[3], it[4]>>)

\* C4: the accumulator stays within the widths of the record, and every entry
\* written (and the accumulator itself) carries the count and n of the items
\* merged into it, clamped to 65535: a sum of 70000 is written as 65535.
MergeSaturates ==
    /\ current_count \in 0..65535
    /\ current_n \in 0..65535
    /\ current_sum \in -32768..32767
    /\ LET runs == Runs(popped)
       IN /\ \A j \in 1..Len(output_file) :
                 /\ j <= Len(runs)
                 /\ output_file[j] # StructError
                 /\ OutputEntries[j][3] = Min(runs[j][3], 65535)
                 /\ OutputEntries[j][4] = Min(runs[j][4], 65535)
          /\ (mpc = "merge" /\ runs # <<>>) =>
                 /\ current_count = Min(runs[Len(runs)][3], 65535)
                 /\ current_n = Min(runs[Len(runs)][4], 65535)

\* C4's case: an entry whose merged count is above 65535 has been written.
MergeSaturatesWitness ==
    \E j \in 1..Len(output_file) :
        /\ j <= Len(Runs(popped))
        /\ Runs(popped)[j][3] = 70000
        /\ OutputEntries[j][3] = 65535
        /\ OutputEntries[j][5] = 0

(***************************************************************************)
(* Properties of process_single_shard.                                     *)
(***************************************************************************)
ShardEntries == [j \in 1..Len(shard_file) |-> Unpack(shard_file[j])]

\* C5: the shard file process_single_shard has written is strictly ascending by
\* (key, move): each entry's pair is below the next one's, so none repeats.
ShardFileAscending ==
    spc = "done" =>
        \A j \in 1..(Len(shard_file) - 1) :
            PairLess(PairOf(ShardEntries[j]), PairOf(ShardEntries[j + 1]))

\* C5's case: a file of three entries or more, written from a table whose
\* iteration order is not the sorted one.
ShardFileAscendingWitness ==
    /\ spc = "done"
    /\ Len(shard_file) >= 3
    /\ FlattenStats(position_stats) # SortEntries(FlattenStats(position_stats))

\* C6 as stated: every entry of the shard file has scoreSum = 0.
ShardScoreSumZero ==
    spc = "done" => \A j \in 1..Len(shard_file) : ShardEntries[j][5] = 0

\* C6, amended: every entry of the shard file has scoreSum = min(count, 32767),
\* which is never 0.
ShardScoreSumIsCount ==
    spc = "done" =>
        \A j \in 1..Len(shard_file) :
            /\ ShardEntries[j][5] = Min(ShardEntries[j][3], 32767)
            /\ ShardEntries[j][5] >= 1

\* C6's case: a pair seen twice is written as (k, m, 2, 2, 2), and one seen more
\* than 32767 times with scoreSum 32767.
ShardScoreSumWitness ==
    /\ spc = "done"
    /\ \E j \in 1..Len(shard_file) :
           ShardEntries[j][3] = 2 /\ ShardEntries[j][4] = 2 /\ ShardEntries[j][5] = 2
    /\ \E j \in 1..Len(shard_file) :
           ShardEntries[j][3] > 32767 /\ ShardEntries[j][5] = 32767

\* C7: when every game was processed in full, the shard file holds, for each
\* pair played at some ply below the limit, one entry whose count and n are
\* min(c, 65535), c the number of such plies, and no entry for any other pair.
ShardCountsPlies ==
    (spc = "done" /\ ~torn_games) =>
        /\ \A p \in PlyPairs :
               LET at == {j \in 1..Len(shard_file) : PairOf(ShardEntries[j]) = p}
               IN IF plies[p] = 0 THEN at = {}
                  ELSE /\ Cardinality(at) = 1
                       /\ \A j \in at :
                              /\ ShardEntries[j][3] = Min(plies[p], 65535)
                              /\ ShardEntries[j][4] = Min(plies[p], 65535)
        /\ \A j \in 1..Len(shard_file) : PairOf(ShardEntries[j]) \in PlyPairs

\* C7's case: two games under the limit 1, with a pair played 65536 times that
\* is written with count 65535.
ShardCountsPliesWitness ==
    /\ spc = "done"
    /\ ~torn_games
    /\ max_ply = 1
    /\ shard_count = prior + 2
    /\ \E p \in PlyPairs :
           /\ plies[p] = 65536
           /\ \E j \in 1..Len(shard_file) :
                  PairOf(ShardEntries[j]) = p /\ ShardEntries[j][3] = 65535

\* C8: a game that raises adds exactly 1 to errors, leaves count alone and
\* leaves the loop reading the next game; every exception is counted; and once
\* the stream has ended the shard file is written from the table.
ShardSkipsBadGame ==
    /\ [][raised_games' # raised_games =>
              /\ shard_errors' = shard_errors + 1
              /\ shard_count' = shard_count
              /\ spc' = "read"]_vars
    /\ [](shard_errors = raised_games)
    /\ [](spc = "done" =>
              /\ shard_exists
              /\ shard_file = WriteEntries(SortEntries(FlattenStats(position_stats))))

\* C8's case: a shard file written after one game failed and one succeeded.
ShardSkipsBadGameWitness ==
    /\ spc = "done"
    /\ shard_errors = 1
    /\ shard_count = prior + 1
    /\ shard_exists
    /\ shard_file # <<>>

(***************************************************************************)
(* Properties of main.                                                     *)
(***************************************************************************)
\* C9: with no shard source found, main exits with a non-zero status before
\* any aggregation or merge: no temporary directory, no shard processed,
\* merge_books never entered, the output file as it was.
MainNoShardsExits ==
    shards = 0 =>
        /\ dpc \in {"start", "exited"}
        /\ dpc = "exited" => (exit_code # None /\ exit_code # 0)
        /\ shard_i = 0
        /\ ~tmpdir_exists
        /\ scratch = <<>>
        /\ mpc = "idle"
        /\ spc = "idle"
        /\ <<output_exists, output_file>> = output_before

\* C9's case: main has exited for want of shards, an older output file in place.
MainNoShardsExitsWitness ==
    /\ shards = 0
    /\ dpc = "exited"
    /\ exit_code = 1
    /\ output_exists
    /\ output_file = OldBook

\* C10 as stated: when an aggregation step or the merge aborts with an error, the
\* scratch shard files written so far still exist afterwards.
ScratchKeptOnAbort ==
    (dpc = "crashed" /\ scratch # <<>>) => tmpdir_exists

\* C10, amended: the scratch shard files exist while aggregation and merge run,
\* and are deleted when main leaves the temporary-directory block, be it after
\* merge_books has returned or because an aggregation step or the merge
\* raised; after such an abort they are gone.
ScratchDeletedOnLeavingBlock ==
    /\ [][(tmpdir_exists /\ ~tmpdir_exists') =>
              ((mpc = "done" /\ dpc' = "report") \/ dpc' = "crashed")]_vars
    /\ [](dpc \in {"shards", "merging"} => tmpdir_exists)
    /\ [](dpc \in {"crashed", "report"} => ~tmpdir_exists)

\* C10's case: the merge has aborted, and the scratch shard files are gone.
ScratchDeletedWitness ==
    /\ dpc = "crashed"
    /\ mpc = "raised"
    /\ temp_books # <<>>
    /\ ~tmpdir_exists

(***************************************************************************)
(* Properties of the search of the output file.                            *)
(***************************************************************************)
\* C11 as stated: when the size of the output file is not an exact multiple of
\* 16, the verification step reports a corruption error and fails instead of
\* truncating the entry count and running the search, and the output file is
\* not deleted: no entry is probed, and main does not end with status 0.
VerifyRejectsTornFile ==
    FileSize % RecordSize # 0 =>
        /\ probes = <<>>
        /\ dpc = "done" => (exit_code # None /\ exit_code # 0)
        /\ output_exists

NonDecreasingKeys ==
    \A i \in 1..(Len(output_file) - 1) : output_file[i][1] <= output_file[i + 1][1]

HasKey == \E i \in 1..Len(output_file) : output_file[i][1] = target_key

\* C12: on an output file whose entries are in non-decreasing key order, the
\* empty file and several entries per key included, and for every reference
\* key, the binary search terminates, no entry being probed twice, and ends
\* with found = TRUE exactly when some entry has the reference key.
VerifySearchFinds ==
    NonDecreasingKeys =>
        /\ \A i \in 1..Len(probes) : probes[i] \in 0..(Len(output_file) - 1)
        /\ \A i, j \in 1..Len(probes) : i # j => probes[i] # probes[j]
        /\ found => HasKey
        /\ dpc = "done" => (found <=> HasKey)

\* C12's case: the search has ended after several probes on a sorted file that
\* holds the reference key more than once.
VerifySearchFindsWitness ==
    /\ dpc = "done"
    /\ NonDecreasingKeys
    /\ found
    /\ Len(probes) >= 2
    /\ \E i, j \in 1..Len(output_file) :
          i # j /\ output_file[i][1] = target_key /\ output_file[j][1] = target_key

(***************************************************************************)
(* Properties of the heap and the handles of merge_books.                  *)
(***************************************************************************)
\* C13 as stated: after an entry read from shard file i is popped, the next
\* entry read and pushed is read from the same file i, for every i and every
\* number of files.
MergeRefillsSameFile ==
    \A i \in 1..Len(refills) : refills[i][1] = refills[i][2]

\* C14: at every step the heap holds at most k items, k the number of shard
\* files passed in.
MergeHeapBounded == Cardinality(readers) <= Len(book_files)

\* C14's case: in the middle of a merge of two files the heap holds two items.
MergeHeapBoundedWitness ==
    /\ mpc = "merge"
    /\ Len(book_files) = 2
    /\ Len(popped) >= 2
    /\ Cardinality(readers) = 2

\* C15 as stated: whether merge_books returns or raises, every shard handle it
\* opened is closed.
MergeClosesHandles ==
    mpc \in {"done", "raised"} =>
        \A i \in 1..Len(open_files) : open_files[i].closed

LastPopped == popped[Len(popped)]

\* C16 as stated: of two heap items with equal key and move, the one with the
\* lower file index is popped first, whatever their count, n and scoreSum.
MergePopsLowerFileFirst ==
    [][popped' # popped =>
          LET item == popped'[Len(popped')]
          IN \A u \in readers \ {item} :
                 (u[1] = item[1] /\ u[2] = item[2]) => item[6] < u[6]]_vars

\* C16, amended: the heap is ordered by the whole item (key, move, count, n,
\* scoreSum, file index): of two heap items with equal key and move, the one
\* with the lower count is popped first, then the lower n, then the lower
\* scoreSum; the file index decides only between items equal in all three.
MergePopsLowerStatsFirst ==
    [][popped' # popped =>
          LET item == popped'[Len(popped')]
          IN \A u \in readers \ {item} :
                 (u[1] = item[1] /\ u[2] = item[2]) =>
                     \/ item[3] < u[3]
                     \/ item[3] = u[3] /\ item[4] < u[4]
                     \/ item[3] = u[3] /\ item[4] = u[4] /\ item[5] < u[5]
                     \/ item[3] = u[3] /\ item[4] = u[4] /\ item[5] = u[5]
                            /\ item[6] < u[6]]_vars

\* C16's case: an item has been popped while the heap held an item of the same
\* key and move with a lower file index and a higher count.
MergePopsLowerStatsFirstWitness ==
    /\ popped # <<>>
    /\ \E u \in readers :
          /\ u[1] = LastPopped[1]
          /\ u[2] = LastPopped[2]
          /\ u[6] < LastPopped[6]
          /\ u[3] > LastPopped[3]

TotalRecords == SumSeq([i \in 1..Len(book_files) |-> Len(book_files[i])])

\* The records of the shard files, and the popped items without their
\* file_idx.
InputRecords ==
    LET recs == Concat(book_files)
    IN [i \in 1..Len(recs) |-> Unpack(recs[i])]
PoppedRecords == [i \in 1..Len(popped) |-> SubSeq(popped[i], 1, 5)]

\* How often r is among the elements of the sequence s.
Times(r, s) == Cardinality({i \in 1..Len(s) : s[i] = r})

\* C20: on non-empty shard files merge_books pops no more items than the files
\* hold records, every record read is in the heap or has been popped, and
\* when the loop is over the heap is empty, every file has been read to its
\* end, every record has been popped exactly once, and entries_written, the
\* value returned, is the number of entries in the output file, the last
\* accumulated entry included.
MergeConsumesAll ==
    /\ Len(popped) <= TotalRecords
    /\ SumSeq([i \in 1..Len(open_files) |-> open_files[i].pos])
           = Len(popped) + Cardinality(readers)
    /\ mpc \in {"close", "done"} =>
           /\ readers = {}
           /\ \A i \in 1..Len(book_files) : open_files[i].pos = Len(book_files[i])
           /\ Len(popped) = TotalRecords
    /\ mpc = "done" =>
           /\ entries_written = Len(output_file)
           /\ LET ins == InputRecords
                  outs == PoppedRecords
              IN \A r \in {ins[i] : i \in 1..Len(ins)} : Times(r, outs) = Times(r, ins)

\* C20's case: merge_books has returned after merging two files of five or
\* more records, some of them combined.
MergeConsumesAllWitness ==
    /\ mpc = "done"
    /\ Len(book_files) = 2
    /\ Len(popped) >= 5
    /\ entries_written < Len(popped)
    /\ entries_written > 0

(***************************************************************************)
(* The order of the shard files.                                           *)
(***************************************************************************)
FileOrders(n) ==
    {p \in [1..n -> 1..n] : \A i, j \in 1..n : p[i] = p[j] => i = j}

Permuted(files, p) == [i \in 1..Len(files) |-> files[p[i]]]

\* The sums of count, n and scoreSum over the shard files stay below the
\* bounds at which merge_books saturates.
BelowSaturation ==
    \A p \in InputPairs :
        /\ InputSum(p, 3) < 65535
        /\ InputSum(p, 4) < 65535
        /\ InputSum(p, 5) \in -32767..32766

\* The file the steps of merge_books have written is the one MergeAll computes.
MergeAllAgrees == mpc = "done" => output_file = MergeAll(book_files)

\* C17 as stated: the file merge_books writes does not depend on the order of
\* the shard files: on strictly sorted non-empty files whose counter sums
\* stay below the saturation bounds, every permutation of the list yields
\* the same sequence of entries.
MergeOrderIndependent ==
    (mpc = "done" /\ BelowSaturation) =>
        \A p \in FileOrders(Len(book_files)) :
            MergeAll(Permuted(book_files, p)) = output_file

(***************************************************************************)
(* Failed games and empty shards.                                          *)
(***************************************************************************)
\* C18 as stated: when the processing of a game fails, part-way included, the
\* failed game is skipped in full: the table after the failure is the table
\* before the game.
ShardFailedGameLeavesTable ==
    [][shard_errors' = shard_errors + 1 => position_stats' = position_stats]_vars

NonEmptyFile(f) == f # <<>>

\* C19: a shard whose file has no entry is left out of the list passed to
\* merge_books and is no error: the list is the files written that are not
\* empty, main goes on with the next shard, merge_books is called with that
\* list, be it empty, and the search of the output file then runs to its end
\* with status 0.
MainDropsEmptyShards ==
    /\ [](temp_books = SelectSeq(scratch, NonEmptyFile))
    /\ [](mpc # "idle" =>
              /\ book_files = temp_books
              /\ \A i \in 1..Len(book_files) : Len(book_files[i]) >= 1)
    /\ [][shard_i' = shard_i + 1 => (dpc' = "shards" /\ exit_code' = None)]_vars
    /\ [](dpc \in {"report", "search", "done"} => (mpc = "done" /\ output_exists))
    /\ [](dpc = "done" =>
              /\ exit_code = 0
              /\ temp_books = <<>> => (output_file = <<>> /\ ~found))

\* C19's case: of two shards one gave no entry; the other alone was merged and
\* the search of the output file has ended.
MainDropsEmptyShardsWitness ==
    /\ dpc = "done"
    /\ Len(scratch) = 2
    /\ scratch[1] = <<>>
    /\ Len(temp_books) = 1
    /\ book_files = temp_books
    /\ output_file # <<>>

====
